---- MODULE Spec2Model ----
(***************************************************************************)
(* Model of ykman/oath.py: the OATH applet controller (OathController),    *)
(* its response decoders (list, _parse_creds) and its helper functions,    *)
(* run against a token reached through an APDU transport.                  *)
(*                                                                         *)
(* Bytes are integers 0..255 and byte strings are sequences of bytes.      *)
(* Python's None is the empty tuple and a present value x is <<x>>, so an  *)
(* empty byte string (<< <<>> >>) stays distinct from None (<<>>).         *)
(***************************************************************************)
EXTENDS Integers, Sequences, FiniteSets, TLC

(***************************************************************************)
(* Bounds of the model                                                     *)
(***************************************************************************)
\* number of public operations the caller invokes after construction
MaxCalls == 2
\* largest number of response bytes the token puts into one APDU
MaxChunk == 8
\* number of records a drawn LIST / CALCULATE_ALL response is made of
MaxRecs == 2
\* number of operations the caller invokes when it only manages the password
MaxAuthCalls == 4
\* number of operations the caller invokes when it only selects and reads
MaxLiveCalls == 1
\* time_challenge is applied to the seconds of windows 0..MaxWindows
MaxWindows == 3
\* format_code is applied to codes up to 10^MaxDigits
MaxDigits == 8
\* hmac_shorten_key is applied to keys up to MaxOver bytes over the block size
MaxOver == 2

(***************************************************************************)
(* Protocol constants                                                      *)
(***************************************************************************)
TAG_NAME == 113
TAG_NAME_LIST == 114
TAG_KEY == 115
TAG_CHALLENGE == 116
TAG_RESPONSE == 117
TAG_TRUNCATED_RESPONSE == 118
TAG_HOTP == 119
TAG_PROPERTY == 120
TAG_VERSION == 121
TAG_IMF == 122
TAG_TOUCH == 124

ALGO_SHA1 == 1
ALGO_SHA256 == 2

OATH_TYPE_HOTP == 16
OATH_TYPE_TOTP == 32

PROPERTIES_REQUIRE_TOUCH == 2

INS_PUT == 1
INS_DELETE == 2
INS_SET_CODE == 3
INS_RESET == 4
INS_LIST == 161
INS_CALCULATE == 162
INS_VALIDATE == 163
INS_SELECT == 164
INS_CALCULATE_ALL == 164
INS_SEND_REMAINING == 165

MASK_ALGO == 15
MASK_TYPE == 240

SW_NO_SPACE == 27268
SW_COMMAND_ABORTED == 28416
SW_MORE_DATA == 97
SW_OK == 36864
\* status words the token uses to refuse a command
SW_AUTH_REQUIRED == 27010
SW_NO_SUCH_OBJECT == 27012
SW_WRONG_DATA == 27264

\* hashlib block and digest sizes
SHA1_BLOCK_SIZE == 64
SHA1_DIGEST_SIZE == 20
SHA256_BLOCK_SIZE == 64
SHA256_DIGEST_SIZE == 32

(***************************************************************************)
(* Python values                                                           *)
(***************************************************************************)
None == <<>>
Some(x) == <<x>>
Value(o) == o[1]

Min(a, b) == IF a < b THEN a ELSE b
Max(a, b) == IF a > b THEN a ELSE b

\* s[a:b] and s[a:] for 0-based, non-negative a and b: a slice never raises,
\* it is cut at the end of s
PySlice(s, a, b) == SubSeq(s, a + 1, Min(b, Len(s)))
PyFrom(s, a) == SubSeq(s, a + 1, Len(s))

\* bool(x) of an optional byte string: None and b'' are both false
Truthy(o) == o /= None /\ Value(o) /= <<>>

RECURSIVE BitAnd(_, _)
BitAnd(a, b) ==
    IF a = 0 \/ b = 0 THEN 0
    ELSE (IF a % 2 = 1 /\ b % 2 = 1 THEN 1 ELSE 0) + 2 * BitAnd(a \div 2, b \div 2)

RECURSIVE BitOr(_, _)
BitOr(a, b) ==
    IF a = 0 THEN b
    ELSE IF b = 0 THEN a
    ELSE (IF a % 2 = 1 \/ b % 2 = 1 THEN 1 ELSE 0) + 2 * BitOr(a \div 2, b \div 2)

RECURSIVE Concat(_)
Concat(ss) == IF ss = <<>> THEN <<>> ELSE Head(ss) \o Concat(Tail(ss))

(***************************************************************************)
(* Text: a str is a sequence of code points below 0x800, bytes.decode and  *)
(* str.encode are UTF-8 on one- and two-byte sequences.  Lead bytes of     *)
(* longer sequences (0xe0 and above) are outside the bytes the model draws,*)
(* except 0xff, which starts no sequence at all.                           *)
(***************************************************************************)
RECURSIVE Utf8Encode(_)
Utf8Encode(str) ==
    IF str = <<>> THEN <<>>
    ELSE LET cp == Head(str)
         IN  (IF cp < 128 THEN <<cp>>
              ELSE <<192 + (cp \div 64), 128 + (cp % 64)>>) \o Utf8Encode(Tail(str))

\* None when the bytes are not UTF-8 (UnicodeDecodeError), else Some(str)
RECURSIVE Utf8Decode(_)
Utf8Decode(bs) ==
    IF bs = <<>> THEN Some(<<>>)
    ELSE LET b == Head(bs)
         IN  IF b < 128
             THEN LET rest == Utf8Decode(Tail(bs))
                  IN  IF rest = None THEN None ELSE Some(<<b>> \o Value(rest))
             ELSE IF b >= 194 /\ b <= 223 /\ Len(bs) >= 2 /\ bs[2] >= 128 /\ bs[2] <= 191
             THEN LET rest == Utf8Decode(Tail(Tail(bs)))
                  IN  IF rest = None THEN None
                      ELSE Some(<<(b - 192) * 64 + (bs[2] - 128)>> \o Value(rest))
             ELSE None

\* str.upper() on the oath type names a caller passes
Upper(str) ==
    CASE str = "totp" -> "TOTP"
      [] str = "hotp" -> "HOTP"
      [] str = "steam" -> "STEAM"
      [] OTHER -> str

\* name.startswith('_hidden:')
HIDDEN_PREFIX == <<95, 104, 105, 100, 100, 101, 110, 58>>
StartsWith(str, prefix) ==
    Len(str) >= Len(prefix) /\ SubSeq(str, 1, Len(prefix)) = prefix

(***************************************************************************)
(* struct.pack / struct.unpack                                             *)
(***************************************************************************)
\* the big-endian bytes of n on w bytes, 0 <= n
RECURSIVE PackBE(_, _)
PackBE(n, w) == IF w = 0 THEN <<>> ELSE PackBE(n \div 256, w - 1) \o <<n % 256>>

\* struct.pack('>q', n): 8 bytes, two's complement for a negative n
PackQ(n) ==
    IF n >= 0 THEN PackBE(n, 8)
    ELSE [i \in 1..8 |-> 255 - PackBE((0 - n) - 1, 8)[i]]

\* struct.pack('>I', n), 0 <= n < 2^31 in the model
PackI(n) == PackBE(n, 4)

(***************************************************************************)
(* Cryptographic primitives, used as black boxes: stand-ins of the real    *)
(* output length that tell apart the keys and messages the model uses.     *)
(***************************************************************************)
\* a number below 251 for the bytes bs, computed by halving
RECURSIVE Weigh(_)
Weigh(bs) ==
    IF bs = <<>> THEN 0
    ELSE IF Len(bs) = 1 THEN (bs[1] + 1) % 251
    ELSE LET h == Len(bs) \div 2
         IN  (3 * Weigh(SubSeq(bs, 1, h)) + 5 * Weigh(SubSeq(bs, h + 1, Len(bs))) + 1) % 251

Digest(bs, size, salt) == [i \in 1..size |-> (Weigh(bs) + salt + 7 * i) % 256]
Sha1(bs) == Digest(bs, SHA1_DIGEST_SIZE, 1)
Sha256(bs) == Digest(bs, SHA256_DIGEST_SIZE, 2)
HmacSha1(key, msg) == Digest(key \o <<0>> \o msg, SHA1_DIGEST_SIZE, 3)

DERIVED_KEY_LEN == 16
_derive_key(salt, passphrase) ==
    Digest(salt \o <<0>> \o Utf8Encode(passphrase), DERIVED_KEY_LEN, 4)

(***************************************************************************)
(* Module functions of oath.py                                             *)
(***************************************************************************)
\* 10 ** d; TLC's integers end at 2^31 - 1, so d <= 9
Pow10(d) == 10 ^ d

\* the decimal digits of n >= 0, most significant first, as '%d' prints them
RECURSIVE DecDigits(_)
DecDigits(n) == IF n < 10 THEN <<n>> ELSE DecDigits(n \div 10) \o <<n % 10>>

\* '%0<w>d' % n for n >= 0: zero-padded on the left to at least w characters
ZeroPad(n, w) ==
    LET ds == DecDigits(n)
    IN  [i \in 1..Max(w - Len(ds), 0) |-> 0] \o ds

\* a format_code that pads the code without reducing it modulo 10 ** digits
format_code_no_mod(code, digits) == ZeroPad(code, digits)

\* ('%%0%dd' % digits) % (code % 10 ** digits); the string is a sequence of
\* decimal digits.  For digits >= 10 and |code| < 2^31 the remainder is code
\* itself for code >= 0.
format_code(code, digits) ==
    IF digits <= 9 THEN ZeroPad(code % Pow10(digits), digits)
    ELSE ZeroPad(code, digits)

\* a parse_truncated that masks with 0x3fffffff
parse_truncated_mask30(resp) ==
    IF Len(resp) /= 4 THEN None
    ELSE Some((resp[1] % 64) * 16777216 + resp[2] * 65536 + resp[3] * 256 + resp[4])

\* struct.unpack('>I', resp)[0] & 0x7fffffff: None (struct.error) unless resp
\* has exactly 4 bytes; the mask drops bit 7 of the first byte
parse_truncated(resp) ==
    IF Len(resp) /= 4 THEN None
    ELSE Some((resp[1] % 128) * 16777216 + resp[2] * 65536 + resp[3] * 256 + resp[4])

\* an hmac_shorten_key that hashes every key longer than the digest
hmac_shorten_key_over_digest(key, algo) ==
    IF algo = ALGO_SHA1
    THEN Some(IF Len(key) > SHA1_DIGEST_SIZE THEN Sha1(key) ELSE key)
    ELSE IF algo = ALGO_SHA256
    THEN Some(IF Len(key) > SHA256_DIGEST_SIZE THEN Sha256(key) ELSE key)
    ELSE None

\* None stands for ValueError('Unsupported algorithm!')
hmac_shorten_key(key, algo) ==
    IF algo = ALGO_SHA1
    THEN Some(IF Len(key) > SHA1_BLOCK_SIZE THEN Sha1(key) ELSE key)
    ELSE IF algo = ALGO_SHA256
    THEN Some(IF Len(key) > SHA256_BLOCK_SIZE THEN Sha256(key) ELSE key)
    ELSE None

\* struct.pack('>q', int((t or time.time())/30)); t is None, or Some(seconds);
\* `t or now` takes the clock for t = None and for t = 0 alike
TIME_STEP == 30
time_challenge(t, now) ==
    LET secs == IF t = None \/ Value(t) = 0 THEN now ELSE Value(t)
        quot == IF secs >= 0 THEN secs \div TIME_STEP
                ELSE 0 - ((0 - secs) \div TIME_STEP)
    IN  PackQ(quot)

(***************************************************************************)
(* ykman.util tlv / parse_tlv: tag, length, value; lengths below 0x80      *)
(***************************************************************************)
tlv(tag, value) == <<tag, Len(value)>> \o value

\* the records of data in order, None when a record is cut short
RECURSIVE parse_tlv(_)
parse_tlv(data) ==
    IF data = <<>> THEN Some(<<>>)
    ELSE IF Len(data) < 2 \/ Len(data) < 2 + data[2] THEN None
    ELSE LET rest == parse_tlv(PyFrom(data, 2 + data[2]))
         IN  IF rest = None THEN None
             ELSE Some(<<[tag |-> data[1], value |-> PySlice(data, 2, 2 + data[2])]>>
                       \o Value(rest))

\* Credential.__init__
Credential(name, code, oath_type, touch, algo) ==
    [name |-> name, code |-> code, oath_type |-> oath_type, touch |-> touch,
     algo |-> algo, hidden |-> StartsWith(name, HIDDEN_PREFIX)]

(***************************************************************************)
(* Response decoders                                                       *)
(***************************************************************************)
OATH_TYPE_name(v) == IF v = OATH_TYPE_HOTP THEN "HOTP" ELSE "TOTP"
ALGO_name(v) == IF v = ALGO_SHA1 THEN "SHA1" ELSE "SHA256"

Raise(exc) == [exc |-> exc, cred |-> None, rest |-> <<>>]
Yield(cred, rest) == [exc |-> "", cred |-> Some(cred), rest |-> rest]

\* a list that reads records of 1 length byte, 1 type byte and the name,
\* with no tag byte in front
list_step_untagged(resp) ==
    LET length == resp[1] - 1
    IN  IF Len(resp) < 2 THEN Raise("IndexError")
        ELSE LET oath_type == BitAnd(MASK_TYPE, resp[2])
                 algo == BitAnd(MASK_ALGO, resp[2])
                 name == Utf8Decode(PySlice(resp, 2, 2 + length))
             IN  IF oath_type \notin {OATH_TYPE_HOTP, OATH_TYPE_TOTP}
                 THEN Raise("ValueError")
                 ELSE IF algo \notin {ALGO_SHA1, ALGO_SHA256}
                 THEN Raise("ValueError")
                 ELSE IF name = None THEN Raise("UnicodeDecodeError")
                 ELSE Yield(Credential(Value(name), None, OATH_TYPE_name(oath_type),
                                       FALSE, Some(ALGO_name(algo))),
                            PyFrom(resp, 2 + length))

\* a list that yields the first record over and over: line 179 does not drop
\* the record from the buffer
list_step_keeps_buffer(resp) ==
    IF Len(resp) < 2 THEN Raise("IndexError")
    ELSE LET length == resp[2] - 1
         IN  IF Len(resp) < 3 THEN Raise("IndexError")
             ELSE LET oath_type == BitAnd(MASK_TYPE, resp[3])
                      algo == BitAnd(MASK_ALGO, resp[3])
                      name == Utf8Decode(PySlice(resp, 3, 3 + length))
                  IN  IF oath_type \notin {OATH_TYPE_HOTP, OATH_TYPE_TOTP}
                      THEN Raise("ValueError")
                      ELSE IF algo \notin {ALGO_SHA1, ALGO_SHA256}
                      THEN Raise("ValueError")
                      ELSE IF name = None THEN Raise("UnicodeDecodeError")
                      ELSE Yield(Credential(Value(name), None, OATH_TYPE_name(oath_type),
                                            FALSE, Some(ALGO_name(algo))),
                                 resp)

\* one pass of the while loop of OathController.list over a non-empty resp:
\* the Credential yielded and the buffer left, or the exception raised
list_step(resp) ==
    IF Len(resp) < 2 THEN Raise("IndexError")
    ELSE LET length == resp[2] - 1
         IN  IF Len(resp) < 3 THEN Raise("IndexError")
             ELSE LET oath_type == BitAnd(MASK_TYPE, resp[3])
                      algo == BitAnd(MASK_ALGO, resp[3])
                      name == Utf8Decode(PySlice(resp, 3, 3 + length))
                  IN  IF oath_type \notin {OATH_TYPE_HOTP, OATH_TYPE_TOTP}
                      THEN Raise("ValueError")
                      ELSE IF algo \notin {ALGO_SHA1, ALGO_SHA256}
                      THEN Raise("ValueError")
                      ELSE IF name = None THEN Raise("UnicodeDecodeError")
                      ELSE Yield(Credential(Value(name), None, OATH_TYPE_name(oath_type),
                                            FALSE, Some(ALGO_name(algo))),
                                 PyFrom(resp, 3 + length))

\* a _parse_creds that labels a HOTP marker as it labels a truncated response
parse_creds_step_hotp_as_totp(tags) ==
    IF Len(tags) < 2 THEN Raise("IndexError")
    ELSE LET name == Utf8Decode(tags[1].value)
             resp_tag == tags[2]
         IN  IF name = None THEN Raise("UnicodeDecodeError")
             ELSE IF resp_tag.value = <<>> THEN Raise("IndexError")
             ELSE LET cred == Credential(Value(name), None, "", FALSE, None)
                  IN  IF resp_tag.tag = TAG_TRUNCATED_RESPONSE
                      THEN LET code == parse_truncated(PyFrom(resp_tag.value, 1))
                           IN  IF code = None THEN Raise("struct.error")
                               ELSE Yield([cred EXCEPT
                                              !.code = Some(format_code(Value(code),
                                                                        resp_tag.value[1])),
                                              !.oath_type = "totp"],
                                          PyFrom(tags, 2))
                      ELSE IF resp_tag.tag = TAG_HOTP
                      THEN Yield([cred EXCEPT !.oath_type = "totp"], PyFrom(tags, 2))
                      ELSE IF resp_tag.tag = TAG_TOUCH
                      THEN Yield([cred EXCEPT !.touch = TRUE], PyFrom(tags, 2))
                      ELSE Yield(cred, PyFrom(tags, 2))

\* one pass of the while loop of _parse_creds over a non-empty list of tags
parse_creds_step(tags) ==
    IF Len(tags) < 2 THEN Raise("IndexError")
    ELSE LET name_tag == tags[1]
             resp_tag == tags[2]
             name == Utf8Decode(name_tag.value)
             resp_type == resp_tag.tag
         IN  IF name = None THEN Raise("UnicodeDecodeError")
             ELSE IF resp_tag.value = <<>> THEN Raise("IndexError")
             ELSE LET digits == resp_tag.value[1]
                      cred == Credential(Value(name), None, "", FALSE, None)
                  IN  IF resp_type = TAG_TRUNCATED_RESPONSE
                      THEN LET code == parse_truncated(PyFrom(resp_tag.value, 1))
                           IN  IF code = None THEN Raise("struct.error")
                               ELSE Yield([cred EXCEPT
                                              !.code = Some(format_code(Value(code), digits)),
                                              !.oath_type = "totp"],
                                          PyFrom(tags, 2))
                      ELSE IF resp_type = TAG_HOTP
                      THEN Yield([cred EXCEPT !.oath_type = "hotp"], PyFrom(tags, 2))
                      ELSE IF resp_type = TAG_TOUCH
                      THEN Yield([cred EXCEPT !.touch = TRUE], PyFrom(tags, 2))
                      ELSE Yield(cred, PyFrom(tags, 2))

(***************************************************************************)
(* The token behind the transport.  Its state:                             *)
(*   id     the device id it reports at SELECT                             *)
(*   key    None, or Some(key) once a password is set                      *)
(*   chal   None, or Some(challenge) issued by the last SELECT             *)
(*   open   whether it accepts credential operations                       *)
(*   creds  the stored credentials, each [name, type, digits, touch]       *)
(*   out    the response bytes not yet fetched with SEND_REMAINING         *)
(***************************************************************************)
TOKEN_VERSION == <<0, 2, 1>>
TokenIds == {<<1>>, <<2>>}
\* challenges a token issues at SELECT
TokenChallenges == {<<>>, <<9, 9>>}
\* the names of the model's credentials: "a" and e-acute (two bytes in UTF-8)
Names == {<<97>>, <<233>>}
NameOrder == <<<<97>>, <<233>>>>
Passwords == {<<112>>, <<113>>}
\* os.urandom(8)
HostChallenges == {[i \in 1..8 |-> 1], [i \in 1..8 |-> 2]}

Reply(t, full, sw) == [tok |-> t, full |-> full, sw |-> sw]

TokSelect(t) ==
    IF t.key = None
    THEN {Reply([t EXCEPT !.open = TRUE, !.chal = None],
                tlv(TAG_VERSION, TOKEN_VERSION) \o tlv(TAG_NAME, t.id), SW_OK)}
    ELSE {Reply([t EXCEPT !.open = FALSE, !.chal = Some(c)],
                tlv(TAG_VERSION, TOKEN_VERSION) \o tlv(TAG_NAME, t.id)
                    \o tlv(TAG_CHALLENGE, c), SW_OK) : c \in TokenChallenges}

\* erases the credentials and the password; the token may take a new id
TokReset(t) ==
    {Reply([t EXCEPT !.id = i, !.key = None, !.chal = None, !.open = TRUE, !.creds = {}],
           <<>>, SW_OK) : i \in TokenIds}

\* the payload of PUT: NAME tlv, KEY tlv (type|algo, digits, key), then an
\* optional PROPERTY tag and byte, then an optional IMF tlv
TokPut(t, data) ==
    LET nameLen == data[2]
        name == PySlice(data, 2, 2 + nameLen)
        afterName == PyFrom(data, 2 + nameLen)
        keyLen == afterName[2]
        keyVal == PySlice(afterName, 2, 2 + keyLen)
        afterKey == PyFrom(afterName, 2 + keyLen)
        touch == afterKey /= <<>> /\ afterKey[1] = TAG_PROPERTY
                                  /\ BitAnd(afterKey[2], PROPERTIES_REQUIRE_TOUCH) /= 0
        stored == [name |-> name, type |-> keyVal[1], digits |-> keyVal[2],
                   touch |-> touch]
    IN  {Reply([t EXCEPT !.creds = {c \in @ : c.name /= name} \cup {stored}],
               <<>>, SW_OK)}

StoredInOrder(t) ==
    LET F[i \in 0..Len(NameOrder)] ==
            IF i = 0 THEN <<>>
            ELSE LET hit == {c \in t.creds : c.name = Utf8Encode(NameOrder[i])}
                 IN  IF hit = {} THEN F[i - 1] ELSE Append(F[i - 1], CHOOSE c \in hit : TRUE)
    IN  F[Len(NameOrder)]

TokList(t) ==
    {Reply(t, Concat([i \in 1..Len(StoredInOrder(t)) |->
                        LET c == StoredInOrder(t)[i]
                        IN  tlv(TAG_NAME_LIST, <<c.type>> \o c.name)]), SW_OK)}

\* the 4 bytes of a code for the credential and challenge
TokCode(c, chal) == Digest(c.name \o <<0>> \o chal, 4, 5)

TokCalculate(t, data) ==
    LET tags == Value(parse_tlv(data))
        hit == {c \in t.creds : c.name = tags[1].value}
    IN  IF hit = {} THEN {Reply(t, <<>>, SW_NO_SUCH_OBJECT)}
        ELSE {Reply(t, tlv(TAG_TRUNCATED_RESPONSE,
                           <<c.digits>> \o TokCode(c, tags[2].value)), SW_OK) : c \in hit}

TokCalculateAll(t, data) ==
    LET tags == Value(parse_tlv(data))
        entry(c) ==
            tlv(TAG_NAME, c.name) \o
            (IF c.touch THEN tlv(TAG_TOUCH, <<c.digits>>)
             ELSE IF BitAnd(c.type, MASK_TYPE) = OATH_TYPE_HOTP THEN tlv(TAG_HOTP, <<c.digits>>)
             ELSE tlv(TAG_TRUNCATED_RESPONSE, <<c.digits>> \o TokCode(c, tags[1].value)))
    IN  {Reply(t, Concat([i \in 1..Len(StoredInOrder(t)) |-> entry(StoredInOrder(t)[i])]),
               SW_OK)}

TokDelete(t, data) ==
    LET tags == Value(parse_tlv(data))
        hit == {c \in t.creds : c.name = tags[1].value}
    IN  IF hit = {} THEN {Reply(t, <<>>, SW_NO_SUCH_OBJECT)}
        ELSE {Reply([t EXCEPT !.creds = @ \ hit], <<>>, SW_OK)}

\* an empty KEY removes the password; otherwise the key (after the type byte)
\* is stored if the RESPONSE is the keyed hash of the CHALLENGE
TokSetCode(t, data) ==
    LET tags == Value(parse_tlv(data))
    IN  IF tags[1].value = <<>> THEN {Reply([t EXCEPT !.key = None, !.chal = None], <<>>, SW_OK)}
        ELSE LET key == Tail(tags[1].value)
             IN  IF Len(tags) >= 3 /\ tags[3].value = HmacSha1(key, tags[2].value)
                 THEN {Reply([t EXCEPT !.key = Some(key)], <<>>, SW_OK)}
                 ELSE {Reply(t, <<>>, SW_WRONG_DATA)}

\* RESPONSE must be the keyed hash of the challenge issued at SELECT; the
\* token answers with the keyed hash of the host's CHALLENGE under its own key
TokValidate(t, data) ==
    LET tags == Value(parse_tlv(data))
    IN  IF t.key = None \/ t.chal = None THEN {Reply(t, <<>>, SW_WRONG_DATA)}
        ELSE LET proof == tlv(TAG_RESPONSE, HmacSha1(Value(t.key), tags[2].value))
             IN  IF tags[1].value = HmacSha1(Value(t.key), Value(t.chal))
                 THEN {Reply([t EXCEPT !.open = TRUE], proof, SW_OK)}
                 ELSE {Reply(t, proof, SW_OK)}

TokExec(t, ins, p1, p2, data) ==
    IF ins = INS_SEND_REMAINING
    THEN IF t.out = <<>> THEN {Reply(t, <<>>, SW_WRONG_DATA)} ELSE {Reply(t, t.out, SW_OK)}
    ELSE IF ins = INS_SELECT /\ p1 = 4 THEN TokSelect(t)
    ELSE IF ins = INS_RESET THEN TokReset(t)
    ELSE IF ins = INS_VALIDATE THEN TokValidate(t, data)
    ELSE IF ~t.open THEN {Reply(t, <<>>, SW_AUTH_REQUIRED)}
    ELSE IF ins = INS_PUT THEN TokPut(t, data)
    ELSE IF ins = INS_LIST THEN TokList(t)
    ELSE IF ins = INS_CALCULATE THEN TokCalculate(t, data)
    ELSE IF ins = INS_CALCULATE_ALL THEN TokCalculateAll(t, data)
    ELSE IF ins = INS_DELETE THEN TokDelete(t, data)
    ELSE IF ins = INS_SET_CODE THEN TokSetCode(t, data)
    ELSE {Reply(t, <<>>, SW_WRONG_DATA)}

\* what the driver's send_apdu returns: (resp, sw) and the token afterwards.
\* The token sends at most MaxChunk bytes at a time and announces the rest
\* with 0x61xx; it may also abort any command.
driver_send_apdu(t, ins, p1, p2, data) ==
    {[tok |-> [t EXCEPT !.out = <<>>], resp |-> <<>>, sw |-> SW_COMMAND_ABORTED]}
    \cup
    {IF Len(r.full) > MaxChunk
     THEN [tok |-> [r.tok EXCEPT !.out = PyFrom(r.full, MaxChunk)],
           resp |-> PySlice(r.full, 0, MaxChunk),
           sw |-> SW_MORE_DATA * 256 + Min(Len(r.full) - MaxChunk, 255)]
     ELSE [tok |-> [r.tok EXCEPT !.out = <<>>], resp |-> r.full, sw |-> r.sw]
     : r \in TokExec(t, ins, p1, p2, data)}

(***************************************************************************)
(* The session: an OathController, its caller and the token                *)
(***************************************************************************)
VARIABLES
    version,    \* OathController._version
    id,         \* OathController._id
    challenge,  \* OathController._challenge: None, or Some(bytes)
    tok,        \* the token
    call,       \* the public operation in progress and its send_apdu locals
    wire,       \* the APDU the driver sent last, with the operation it belongs to
    listGen,    \* the generator object returned by the last list()
    credsGen,   \* the generator object returned by the last calculate_all()
    held,       \* the Credentials the caller got from the generators
    last,       \* how the last operation ended
    ncalls      \* public operations invoked so far

vars == <<version, id, challenge, tok, call, wire, listGen, credsGen, held, last, ncalls>>

\* the application identifier sent with SELECT
OATH_AID == <<160, 0, 0, 5, 39, 33, 1, 1>>

Sess == [version |-> version, id |-> id, challenge |-> challenge]
NoSess == [version |-> <<>>, id |-> <<>>, challenge |-> None]
NoArg == [none |-> TRUE]

Idle == [op |-> "idle", ticket |-> 0, resp |-> <<>>, sw |-> 0, sent |-> <<>>,
         answers |-> <<>>, arg |-> NoArg, before |-> NoSess]
Apdu(cl, ins, p1, p2, data) == [cl |-> cl, ins |-> ins, p1 |-> p1, p2 |-> p2, data |-> data]
NoWire == [apdu |-> Apdu(0, 0, 0, 0, <<>>), ticket |-> 0]
\* a generator object: its state, the call that made it, the response it
\* decodes (resp), what is left of it (buf) and the Credentials yielded (out)
NoGen == [state |-> "none", ticket |-> 0, resp |-> <<>>, buf |-> <<>>, out |-> <<>>]

Busy == call.op /= "idle"
\* the caller invokes an operation when none is running, n at most
CanCallUpTo(n) == ~Busy /\ ncalls < n
CanCall == CanCallUpTo(MaxCalls)

\* OathController.locked: the property returns _challenge itself
locked == challenge

\* a continuation chunk put in front of the bytes already received
AccumulatePrepend(resp, more) == more \o resp

\* resp += more
Accumulate(resp, more) == resp \o more

\* send_apdu, line 120: the primary request of operation op
send_apdu_first(op, ticket, arg, cl, ins, p1, p2, data) ==
    \E a \in driver_send_apdu(tok, ins, p1, p2, data) :
        /\ tok' = a.tok
        /\ wire' = [apdu |-> Apdu(cl, ins, p1, p2, data), ticket |-> ticket]
        /\ call' = [op |-> op, ticket |-> ticket, resp |-> a.resp, sw |-> a.sw,
                    sent |-> <<Apdu(cl, ins, p1, p2, data)>>,
                    answers |-> <<[resp |-> a.resp, sw |-> a.sw]>>,
                    arg |-> arg, before |-> Sess]

\* send_apdu, lines 121-124: one pass of the continuation loop
send_apdu_more ==
    /\ Busy
    /\ call.sw \div 256 = SW_MORE_DATA
    /\ \E a \in driver_send_apdu(tok, INS_SEND_REMAINING, 0, 0, <<>>) :
        /\ tok' = a.tok
        /\ wire' = [apdu |-> Apdu(0, INS_SEND_REMAINING, 0, 0, <<>>), ticket |-> call.ticket]
        /\ call' = [call EXCEPT !.resp = Accumulate(@, a.resp), !.sw = a.sw,
                                !.sent = Append(@, Apdu(0, INS_SEND_REMAINING, 0, 0, <<>>)),
                                !.answers = Append(@, [resp |-> a.resp, sw |-> a.sw])]
    /\ UNCHANGED <<version, id, challenge, listGen, credsGen, held, last, ncalls>>

\* the loop of send_apdu is over
Answered(op) == call.op = op /\ call.sw \div 256 /= SW_MORE_DATA

\* the operation ends: by returning (status "ok") or by raising (the exception)
Finish(status, value) ==
    /\ last' = [status |-> status, call |-> call, value |-> value]
    /\ call' = Idle

\* a send_apdu that returns resp whatever the status word is
send_apdu_swallow ==
    /\ Busy
    /\ call.sw \div 256 /= SW_MORE_DATA
    /\ call.sw /= SW_OK
    /\ Finish("ok", None)
    /\ listGen' = IF call.op = "list" THEN [listGen EXCEPT !.state = "done"] ELSE listGen
    /\ UNCHANGED <<version, id, challenge, tok, wire, credsGen, held, ncalls>>

\* send_apdu, lines 126-127: raise APDUError(resp, sw) out of the operation,
\* which for list is out of the generator's first next()
send_apdu_raise ==
    /\ Busy
    /\ call.sw \div 256 /= SW_MORE_DATA
    /\ call.sw /= SW_OK
    /\ Finish("APDUError", Some([resp |-> call.resp, sw |-> call.sw]))
    /\ listGen' = IF call.op = "list" THEN [listGen EXCEPT !.state = "done"] ELSE listGen
    /\ UNCHANGED <<version, id, challenge, tok, wire, credsGen, held, ncalls>>

\* the record of an operation that exchanges no APDU (yet)
NewCall(op, ticket, arg) ==
    [op |-> op, ticket |-> ticket, resp |-> <<>>, sw |-> 0, sent |-> <<>>, answers |-> <<>>,
     arg |-> arg, before |-> Sess]

(***************************************************************************)
(* select, lines 131-139                                                   *)
(***************************************************************************)
\* a select that sets _challenge when a third record is there and leaves it
\* alone otherwise
select_parse_no_clear(resp, sess) ==
    LET tags == parse_tlv(resp)
    IN  IF tags = None THEN [exc |-> "DecodeError", sess |-> sess]
        ELSE IF Len(Value(tags)) < 1 THEN [exc |-> "IndexError", sess |-> sess]
        ELSE IF Len(Value(tags)) < 2
        THEN [exc |-> "IndexError",
              sess |-> [sess EXCEPT !.version = Value(tags)[1].value]]
        ELSE [exc |-> "",
              sess |-> [version |-> Value(tags)[1].value,
                        id |-> Value(tags)[2].value,
                        challenge |-> IF Len(Value(tags)) > 2
                                      THEN Some(Value(tags)[3].value)
                                      ELSE sess.challenge]]

\* lines 133-139 on the response resp: the session fields afterwards and the
\* exception raised, if any.  _version is assigned before tags[1] is read.
select_parse(resp, sess) ==
    LET tags == parse_tlv(resp)
    IN  IF tags = None THEN [exc |-> "DecodeError", sess |-> sess]
        ELSE IF Len(Value(tags)) < 1 THEN [exc |-> "IndexError", sess |-> sess]
        ELSE IF Len(Value(tags)) < 2
        THEN [exc |-> "IndexError",
              sess |-> [sess EXCEPT !.version = Value(tags)[1].value]]
        ELSE [exc |-> "",
              sess |-> [version |-> Value(tags)[1].value,
                        id |-> Value(tags)[2].value,
                        challenge |-> IF Len(Value(tags)) > 2
                                      THEN Some(Value(tags)[3].value)
                                      ELSE None]]

select_within(n) ==
    /\ CanCallUpTo(n)
    /\ ncalls' = ncalls + 1
    /\ send_apdu_first("select", ncalls + 1, NoArg, 0, INS_SELECT, 4, 0, OATH_AID)
    /\ UNCHANGED <<version, id, challenge, listGen, credsGen, held, last>>

select == select_within(MaxCalls)

select_return ==
    /\ Answered("select")
    /\ call.sw = SW_OK
    /\ LET r == select_parse(call.resp, Sess)
       IN  /\ version' = r.sess.version
           /\ id' = r.sess.id
           /\ challenge' = r.sess.challenge
           /\ Finish(IF r.exc = "" THEN "ok" ELSE r.exc, None)
    /\ UNCHANGED <<tok, wire, listGen, credsGen, held, ncalls>>

(***************************************************************************)
(* reset, put, delete, set_password, clear_password: one APDU, nothing is  *)
(* read from the response                                                  *)
(***************************************************************************)
reset_within(n) ==
    /\ CanCallUpTo(n)
    /\ ncalls' = ncalls + 1
    /\ send_apdu_first("reset", ncalls + 1, NoArg, 0, INS_RESET, 222, 173, <<>>)
    /\ UNCHANGED <<version, id, challenge, listGen, credsGen, held, last>>

reset == reset_within(MaxCalls)

\* keys a caller provisions: a short one and one longer than a hash block
ShortKey == <<1, 2, 3>>
LongKey == [i \in 1..(SHA1_BLOCK_SIZE + 1) |-> 7]

PutArg(key, name, oath_type, digits, algo, counter, require_touch) ==
    [key |-> key, name |-> name, oath_type |-> oath_type, digits |-> digits,
     algo |-> algo, counter |-> counter, require_touch |-> require_touch]

\* the calls of put the caller makes
PutCalls ==
    { PutArg(ShortKey, <<97>>, "totp", 6, "SHA1", 0, FALSE),
      PutArg(LongKey, <<233>>, "hotp", 8, "SHA256", 1, TRUE),
      PutArg(ShortKey, <<233>>, "TOTP", 6, "SHA1", 0, TRUE),
      PutArg(ShortKey, <<97>>, "hotp", 6, "SHA1", 258, FALSE),
      PutArg(ShortKey, <<97>>, "steam", 6, "SHA1", 0, FALSE),
      PutArg(LongKey, <<233>>, "totp", 6, "sha1", 2, TRUE) }

OATH_TYPE_names == {"HOTP", "TOTP"}
ALGO_names == {"SHA1", "SHA256"}
OATH_TYPE_value(n) == IF n = "HOTP" THEN OATH_TYPE_HOTP ELSE OATH_TYPE_TOTP
ALGO_value(n) == IF n = "SHA1" THEN ALGO_SHA1 ELSE ALGO_SHA256

\* a put that looks up nothing and falls back to a default
put_valid_default(a) == TRUE

\* lines 147-148: the enum lookups raise KeyError on an unknown name
put_valid(a) == Upper(a.oath_type) \in OATH_TYPE_names /\ a.algo \in ALGO_names

\* a payload that carries the IMF tag whatever the counter is
put_data_imf_always(a) ==
    LET oath_type == OATH_TYPE_value(Upper(a.oath_type))
        algo == ALGO_value(a.algo)
        key == <<BitOr(oath_type, algo)>> \o <<a.digits>>
                   \o Value(hmac_shorten_key(a.key, algo))
        properties == IF a.require_touch THEN PROPERTIES_REQUIRE_TOUCH ELSE 0
    IN  tlv(TAG_NAME, Utf8Encode(a.name)) \o tlv(TAG_KEY, key)
        \o (IF properties /= 0 THEN <<TAG_PROPERTY>> \o <<properties>> ELSE <<>>)
        \o tlv(TAG_IMF, PackI(a.counter))

\* lines 147-164: the payload of PUT for arguments that pass the lookups
put_data(a) ==
    LET oath_type == OATH_TYPE_value(Upper(a.oath_type))
        algo == ALGO_value(a.algo)
        key == <<BitOr(oath_type, algo)>> \o <<a.digits>>
                   \o Value(hmac_shorten_key(a.key, algo))
        properties == IF a.require_touch THEN PROPERTIES_REQUIRE_TOUCH ELSE 0
    IN  tlv(TAG_NAME, Utf8Encode(a.name)) \o tlv(TAG_KEY, key)
        \o (IF properties /= 0 THEN <<TAG_PROPERTY>> \o <<properties>> ELSE <<>>)
        \o (IF a.counter > 0 THEN tlv(TAG_IMF, PackI(a.counter)) ELSE <<>>)

put ==
    /\ CanCall
    /\ ncalls' = ncalls + 1
    /\ \E a \in PutCalls :
        IF put_valid(a)
        THEN /\ send_apdu_first("put", ncalls + 1, a, 0, INS_PUT, 0, 0, put_data(a))
             /\ UNCHANGED last
        ELSE /\ last' = [status |-> "KeyError", call |-> NewCall("put", ncalls + 1, a),
                         value |-> None]
             /\ UNCHANGED <<tok, call, wire>>
    /\ UNCHANGED <<version, id, challenge, listGen, credsGen, held>>

\* the Credentials a caller builds itself; `at` is filled in by calculate with
\* the time it read
CallerCreds ==
    { [cred |-> Credential(<<97>>, None, "totp", FALSE, None), src |-> "caller", at |-> 0],
      [cred |-> Credential(<<233>>, None, "hotp", FALSE, None), src |-> "caller", at |-> 0] }

\* the values time.time() returns
Times == {45, 60}

delete ==
    /\ CanCall
    /\ ncalls' = ncalls + 1
    /\ \E c \in held \cup CallerCreds :
        send_apdu_first("delete", ncalls + 1, c, 0, INS_DELETE, 0, 0,
                        tlv(TAG_NAME, Utf8Encode(c.cred.name)))
    /\ UNCHANGED <<version, id, challenge, listGen, credsGen, held, last>>

set_password_within(n) ==
    /\ CanCallUpTo(n)
    /\ ncalls' = ncalls + 1
    /\ \E password \in Passwords, chal \in HostChallenges :
        LET key == _derive_key(id, password)
            keydata == <<BitOr(OATH_TYPE_TOTP, ALGO_SHA1)>> \o key
            response == HmacSha1(key, chal)
            data == tlv(TAG_KEY, keydata) \o tlv(TAG_CHALLENGE, chal)
                        \o tlv(TAG_RESPONSE, response)
        IN  send_apdu_first("set_password", ncalls + 1, [password |-> password],
                            0, INS_SET_CODE, 0, 0, data)
    /\ UNCHANGED <<version, id, challenge, listGen, credsGen, held, last>>

set_password == set_password_within(MaxCalls)

clear_password_within(n) ==
    /\ CanCallUpTo(n)
    /\ ncalls' = ncalls + 1
    /\ send_apdu_first("clear_password", ncalls + 1, NoArg, 0, INS_SET_CODE, 0, 0,
                       tlv(TAG_KEY, <<>>))
    /\ UNCHANGED <<version, id, challenge, listGen, credsGen, held, last>>

clear_password == clear_password_within(MaxCalls)

\* a return in which reset forgets the challenge of the session
return_none_reset_unlocks ==
    /\ \E op \in {"reset", "put", "delete", "set_password", "clear_password"} :
          Answered(op)
    /\ call.sw = SW_OK
    /\ Finish("ok", None)
    /\ challenge' = IF call.op = "reset" THEN None ELSE challenge
    /\ UNCHANGED <<version, id, tok, wire, listGen, credsGen, held, ncalls>>

\* reset, put, delete, set_password and clear_password return once send_apdu
\* has returned
return_none ==
    /\ \E op \in {"reset", "put", "delete", "set_password", "clear_password"} :
          Answered(op)
    /\ call.sw = SW_OK
    /\ Finish("ok", None)
    /\ UNCHANGED <<version, id, challenge, tok, wire, listGen, credsGen, held, ncalls>>

(***************************************************************************)
(* list, lines 168-179: a generator function.  Calling it runs none of its *)
(* body; the body runs inside next(), up to the next yield.                *)
(***************************************************************************)
list_within(n) ==
    /\ CanCallUpTo(n)
    /\ ncalls' = ncalls + 1
    /\ listGen' = [NoGen EXCEPT !.state = "created", !.ticket = ncalls + 1]
    /\ last' = [status |-> "ok", call |-> NewCall("list", ncalls + 1, NoArg), value |-> None]
    /\ UNCHANGED <<version, id, challenge, tok, call, wire, credsGen, held>>

list == list_within(MaxCalls)

\* the first next(): line 169
list_next ==
    /\ ~Busy
    /\ listGen.state = "created"
    /\ send_apdu_first("list", listGen.ticket, NoArg, 0, INS_LIST, 0, 0, <<>>)
    /\ listGen' = [listGen EXCEPT !.state = "running"]
    /\ UNCHANGED <<version, id, challenge, credsGen, held, last, ncalls>>

\* lines 170-179 from the loop test up to the next yield, over the buffer buf
list_advance(c, g, buf) ==
    IF buf = <<>>
    THEN /\ listGen' = [g EXCEPT !.state = "done", !.buf = <<>>]
         /\ last' = [status |-> "StopIteration", call |-> c, value |-> None]
         /\ held' = held
    ELSE LET r == list_step(buf)
         IN  IF r.exc /= ""
             THEN /\ listGen' = [g EXCEPT !.state = "done"]
                  /\ last' = [status |-> r.exc, call |-> c, value |-> None]
                  /\ held' = held
             ELSE /\ listGen' = [g EXCEPT !.state = "suspended", !.buf = r.rest,
                                          !.out = Append(@, Value(r.cred))]
                  /\ last' = [status |-> "yield", call |-> c, value |-> r.cred]
                  /\ held' = held \cup {[cred |-> Value(r.cred), src |-> "list", at |-> 0]}

\* the first next() goes on after send_apdu has returned
list_return ==
    /\ Answered("list")
    /\ call.sw = SW_OK
    /\ list_advance(call, [listGen EXCEPT !.resp = call.resp], call.resp)
    /\ call' = Idle
    /\ UNCHANGED <<version, id, challenge, tok, wire, credsGen, ncalls>>

\* a later next()
list_resume ==
    /\ ~Busy
    /\ listGen.state = "suspended"
    /\ list_advance(NewCall("list", listGen.ticket, NoArg), listGen, listGen.buf)
    /\ UNCHANGED <<version, id, challenge, tok, call, wire, credsGen, ncalls>>

(***************************************************************************)
(* calculate, lines 181-192                                                *)
(***************************************************************************)
\* lines 182-185: the payload of CALCULATE for cred at time t
calculate_data(cred, t) ==
    LET chal == IF cred.oath_type = "totp" THEN time_challenge(None, t) ELSE <<>>
    IN  tlv(TAG_NAME, Utf8Encode(cred.name)) \o tlv(TAG_CHALLENGE, chal)

\* lines 187-191: the code decoded from the response, or the exception
calculate_parse(resp) ==
    LET tags == parse_tlv(resp)
    IN  IF tags = None THEN [exc |-> "DecodeError", code |-> None]
        ELSE IF Value(tags) = <<>> THEN [exc |-> "IndexError", code |-> None]
        ELSE LET val == Value(tags)[1].value
             IN  IF val = <<>> THEN [exc |-> "IndexError", code |-> None]
                 ELSE LET code == parse_truncated(PyFrom(val, 1))
                      IN  IF code = None THEN [exc |-> "struct.error", code |-> None]
                          ELSE [exc |-> "", code |-> Some(format_code(Value(code), val[1]))]

calculate ==
    /\ CanCall
    /\ ncalls' = ncalls + 1
    /\ \E c \in held \cup CallerCreds, now \in Times :
        send_apdu_first("calculate", ncalls + 1, [c EXCEPT !.at = now], 0, INS_CALCULATE,
                        0, 1, calculate_data(c.cred, now))
    /\ UNCHANGED <<version, id, challenge, listGen, credsGen, held, last>>

calculate_return ==
    /\ Answered("calculate")
    /\ call.sw = SW_OK
    /\ LET r == calculate_parse(call.resp)
           cred == [call.arg.cred EXCEPT !.code = r.code]
       IN  IF r.exc /= ""
           THEN Finish(r.exc, None) /\ held' = held
           ELSE /\ Finish("ok", Some(cred))
                /\ held' = LET was == [call.arg EXCEPT !.at = 0]
                           IN  IF was \in held
                               THEN (held \ {was}) \cup {[was EXCEPT !.cred = cred]}
                               ELSE held
    /\ UNCHANGED <<version, id, challenge, tok, wire, listGen, credsGen, ncalls>>

(***************************************************************************)
(* calculate_all, lines 198-201, and the generator _parse_creds, 233-251   *)
(***************************************************************************)
calculate_all_within(n) ==
    /\ CanCallUpTo(n)
    /\ ncalls' = ncalls + 1
    /\ \E now \in Times :
        send_apdu_first("calculate_all", ncalls + 1, [at |-> now], 0, INS_CALCULATE_ALL,
                        0, 1, tlv(TAG_CHALLENGE, time_challenge(None, now)))
    /\ UNCHANGED <<version, id, challenge, listGen, credsGen, held, last>>

calculate_all == calculate_all_within(MaxCalls)

\* line 201: _parse_creds(resp) makes the generator and runs none of its body
calculate_all_return ==
    /\ Answered("calculate_all")
    /\ call.sw = SW_OK
    /\ credsGen' = [NoGen EXCEPT !.state = "created", !.ticket = call.ticket,
                                 !.resp = call.resp]
    /\ Finish("ok", None)
    /\ UNCHANGED <<version, id, challenge, tok, wire, listGen, held, ncalls>>

\* next() on the generator: line 234 the first time, then lines 235-251 from
\* the loop test up to the next yield
parse_creds_next ==
    /\ ~Busy
    /\ credsGen.state \in {"created", "suspended"}
    /\ LET c == NewCall("calculate_all", credsGen.ticket, NoArg)
           tags == IF credsGen.state = "created" THEN parse_tlv(credsGen.resp)
                   ELSE Some(credsGen.buf)
           stop(status) ==
               /\ credsGen' = [credsGen EXCEPT !.state = "done"]
               /\ last' = [status |-> status, call |-> c, value |-> None]
               /\ held' = held
       IN  IF tags = None THEN stop("DecodeError")
           ELSE IF Value(tags) = <<>> THEN stop("StopIteration")
           ELSE LET r == parse_creds_step(Value(tags))
                IN  IF r.exc /= "" THEN stop(r.exc)
                    ELSE /\ credsGen' = [credsGen EXCEPT !.state = "suspended",
                                                         !.buf = r.rest,
                                                         !.out = Append(@, Value(r.cred))]
                         /\ last' = [status |-> "yield", call |-> c, value |-> r.cred]
                         /\ held' = held \cup {[cred |-> Value(r.cred),
                                                src |-> "calculate_all", at |-> 0]}
    /\ UNCHANGED <<version, id, challenge, tok, call, wire, listGen, ncalls>>

(***************************************************************************)
(* validate, lines 215-225                                                 *)
(***************************************************************************)
\* hmac.new(key, None, ...) hashes the empty message
OrEmpty(o) == IF o = None THEN <<>> ELSE Value(o)

\* a validate that derives its key without the device id as salt
validate_within_unsalted(n) ==
    /\ CanCallUpTo(n)
    /\ ncalls' = ncalls + 1
    /\ \E password \in Passwords, chal \in HostChallenges :
        LET key == _derive_key(<<>>, password)
            response == HmacSha1(key, OrEmpty(challenge))
            verification == HmacSha1(key, chal)
            data == tlv(TAG_RESPONSE, response) \o tlv(TAG_CHALLENGE, chal)
        IN  send_apdu_first("validate", ncalls + 1,
                            [password |-> password, verification |-> verification],
                            0, INS_VALIDATE, 0, 0, data)
    /\ UNCHANGED <<version, id, challenge, listGen, credsGen, held, last>>

validate_within(n) ==
    /\ CanCallUpTo(n)
    /\ ncalls' = ncalls + 1
    /\ \E password \in Passwords, chal \in HostChallenges :
        LET key == _derive_key(id, password)
            response == HmacSha1(key, OrEmpty(challenge))
            verification == HmacSha1(key, chal)
            data == tlv(TAG_RESPONSE, response) \o tlv(TAG_CHALLENGE, chal)
        IN  send_apdu_first("validate", ncalls + 1,
                            [password |-> password, verification |-> verification],
                            0, INS_VALIDATE, 0, 0, data)
    /\ UNCHANGED <<version, id, challenge, listGen, credsGen, held, last>>

validate == validate_within(MaxCalls)

\* a validate that does not compare the token's answer
validate_check_no_compare(resp, verification) ==
    LET tags == parse_tlv(resp)
    IN  IF tags = None THEN "DecodeError"
        ELSE IF Value(tags) = <<>> THEN "IndexError"
        ELSE ""

\* lines 222-225 on the response resp: the exception raised, "" for none
validate_check(resp, verification) ==
    LET tags == parse_tlv(resp)
    IN  IF tags = None THEN "DecodeError"
        ELSE IF Value(tags) = <<>> THEN "IndexError"
        ELSE IF Value(tags)[1].value /= verification THEN "ValueError"
        ELSE ""

validate_return ==
    /\ Answered("validate")
    /\ call.sw = SW_OK
    /\ LET exc == validate_check(call.resp, call.arg.verification)
       IN  IF exc /= ""
           THEN Finish(exc, None) /\ challenge' = challenge
           ELSE Finish("ok", None) /\ challenge' = None
    /\ UNCHANGED <<version, id, tok, wire, listGen, credsGen, held, ncalls>>

(***************************************************************************)
(* The clock, the state after construction, the specification              *)
(***************************************************************************)
\* send_apdu run to its end on the first answer a: the final (resp, sw)
RECURSIVE send_apdu_run(_)
send_apdu_run(a) ==
    IF a.sw \div 256 = SW_MORE_DATA
    THEN UNION { send_apdu_run([tok |-> b.tok, resp |-> Accumulate(a.resp, b.resp),
                                sw |-> b.sw])
                 : b \in driver_send_apdu(a.tok, INS_SEND_REMAINING, 0, 0, <<>>) }
    ELSE {a}

StoredTotp == [name |-> <<97>>, type |-> 33, digits |-> 6, touch |-> FALSE]
StoredHotp == [name |-> <<195, 169>>, type |-> 18, digits |-> 8, touch |-> FALSE]

\* the tokens a controller is constructed on
InitialTokens ==
    { [id |-> <<1>>, key |-> k, chal |-> None, open |-> TRUE, creds |-> cs, out |-> <<>>] :
        k \in {None, Some(_derive_key(<<1>>, <<112>>))},
        cs \in {{}, {StoredTotp, StoredHotp}} }

\* __init__, lines 107-109: the state after a select that succeeded
Init ==
    /\ \E t \in InitialTokens :
         \E a \in driver_send_apdu(t, INS_SELECT, 4, 0, OATH_AID) :
           \E f \in send_apdu_run(a) :
             /\ f.sw = SW_OK
             /\ select_parse(f.resp, NoSess).exc = ""
             /\ version = select_parse(f.resp, NoSess).sess.version
             /\ id = select_parse(f.resp, NoSess).sess.id
             /\ challenge = select_parse(f.resp, NoSess).sess.challenge
             /\ tok = f.tok
    /\ call = Idle
    /\ wire = NoWire
    /\ listGen = NoGen
    /\ credsGen = NoGen
    /\ held = {}
    /\ last = [status |-> "ok", call |-> Idle, value |-> None]
    /\ ncalls = 0

Next ==
    \/ select \/ select_return
    \/ reset \/ put \/ delete \/ set_password \/ clear_password \/ return_none
    \/ list \/ list_next \/ list_return \/ list_resume
    \/ calculate \/ calculate_return
    \/ calculate_all \/ calculate_all_return \/ parse_creds_next
    \/ validate \/ validate_return
    \/ send_apdu_more \/ send_apdu_raise

Spec == Init /\ [][Next]_vars

(***************************************************************************)
(* A caller that manages the password only: reset, set_password,           *)
(* clear_password, select and validate, MaxAuthCalls of them                *)
(***************************************************************************)
select_auth == select_within(MaxAuthCalls)
reset_auth == reset_within(MaxAuthCalls)
set_password_auth == set_password_within(MaxAuthCalls)
clear_password_auth == clear_password_within(MaxAuthCalls)
validate_auth == validate_within(MaxAuthCalls)

NextAuth ==
    \/ select_auth \/ select_return
    \/ reset_auth \/ set_password_auth \/ clear_password_auth \/ return_none
    \/ validate_auth \/ validate_return
    \/ send_apdu_more \/ send_apdu_raise

SpecAuth == Init /\ [][NextAuth]_vars

(***************************************************************************)
(* Properties of the session                                               *)
(***************************************************************************)
\* the operation that ended last, with nothing started since
Ended(op) == ~Busy /\ last.call.op = op

\* C1: for a session whose challenge is not None, a validate that the token
\* answers with 0x9000 returns and sets challenge to None when the password is
\* the token's, and raises ValueError (the authentication error) and leaves
\* challenge as it was, not None, when the password is not the token's.
C1_ValidateRoundTrip ==
    (Ended("validate") /\ last.call.before.challenge /= None /\ last.call.sw = SW_OK)
    => LET mine == _derive_key(last.call.before.id, last.call.arg.password)
       IN  /\ tok.key = Some(mine) => last.status = "ok" /\ challenge = None
           /\ tok.key /= Some(mine) => /\ last.status = "ValueError"
                                       /\ challenge = last.call.before.challenge
                                       /\ challenge /= None

\* a validate with a wrong password has raised on a locked session
C1_Witness ==
    /\ Ended("validate")
    /\ last.call.sw = SW_OK
    /\ last.status = "ValueError"
    /\ tok.key /= None
    /\ tok.key /= Some(_derive_key(last.call.before.id, last.call.arg.password))
    /\ challenge /= None

\* challenge is None exactly when the token accepts credential operations
LockAgrees == (challenge = None) <=> tok.open
SessionOps == {"select", "reset", "validate"}

\* C2 as stated: between operations, challenge is None if and only if the
\* token accepts credential operations without a prior Validate.
C2_ChallengeNullIffOpen == ~Busy => LockAgrees

\* C2 amended: challenge is None if and only if the token accepts credential
\* operations after construction, right after every successful select, and
\* right after every successful validate of the challenge the token issued
\* last; no step of another operation than select, reset and validate ends
\* that agreement.
C2_AgreesAfterSelectAndValidate ==
    /\ LockAgrees
    /\ [][ /\ (last' /= last /\ last'.call.op = "select" /\ last'.status = "ok")
                  => LockAgrees'
           /\ (last' /= last /\ last'.call.op = "validate" /\ last'.status = "ok"
                  /\ last'.call.before.challenge /= None
                  /\ last'.call.before.challenge = tok.chal) => LockAgrees'
           /\ (LockAgrees /\ call.op \notin SessionOps /\ call'.op \notin SessionOps)
                  => LockAgrees' ]_vars

\* a validate has unlocked a session whose token has a password
C2_Witness ==
    /\ Ended("validate")
    /\ last.status = "ok"
    /\ last.call.before.challenge /= None
    /\ tok.key /= None
    /\ challenge = None
    /\ tok.open

\* the chunks the driver returned to operation c, in order
Chunks(c) == [i \in 1..Len(c.answers) |-> c.answers[i].resp]
MoreData(sw) == sw \div 256 = SW_MORE_DATA

\* send_apdu of operation c has sent one request per answer, the first the
\* primary one and each other a zero-payload SEND_REMAINING after an answer of
\* 0x61xx, and holds the answers' bytes in the order received
Reassembled(c) ==
    /\ Len(c.sent) = Len(c.answers)
    /\ c.resp = Concat(Chunks(c))
    /\ \A i \in 1..Len(c.sent) :
        IF i = 1 THEN c.sent[i].ins /= INS_SEND_REMAINING
        ELSE /\ c.sent[i] = Apdu(0, INS_SEND_REMAINING, 0, 0, <<>>)
             /\ MoreData(c.answers[i - 1].sw)
    /\ \A i \in 1..(Len(c.answers) - 1) : MoreData(c.answers[i].sw)

\* C3: send_apdu returns the first response followed by every SEND_REMAINING
\* chunk in the order received, and has sent exactly one zero-payload
\* SEND_REMAINING for each status word 0x61xx and none after another one.
C3_ChunksInReceiptOrder ==
    /\ Reassembled(call)
    /\ Reassembled(last.call)
    /\ ~Busy /\ last.call.sent /= <<>> =>
          ~MoreData(last.call.answers[Len(last.call.answers)].sw)

\* an operation has returned a response fetched in three chunks
C3_Witness ==
    /\ ~Busy
    /\ last.status = "ok"
    /\ Len(last.call.answers) = 3
    /\ \A i \in 1..3 : last.call.answers[i].resp /= <<>>
    /\ Len(last.call.resp) > 2 * MaxChunk

\* the requests of operation c that are not SEND_REMAINING
Primaries(c) == {i \in 1..Len(c.sent) : c.sent[i].ins /= INS_SEND_REMAINING}
Refused(sw) == sw /= SW_OK /\ ~MoreData(sw)

\* C4: when the token answers the primary or a SEND_REMAINING request with a
\* status word that is neither 0x9000 nor 0x61xx, the operation's next step
\* raises APDUError with the bytes received and that status word and sends
\* nothing; no operation sends its primary command twice.
C4_ProtocolErrorNoRetry ==
    /\ [](Cardinality(Primaries(call)) <= 1 /\ Cardinality(Primaries(last.call)) <= 1)
    /\ [][ (Busy /\ Refused(call.sw)) =>
              /\ wire' = wire
              /\ tok' = tok
              /\ call' = Idle
              /\ last'.status = "APDUError"
              /\ last'.call = call
              /\ last'.value = Some([resp |-> Concat(Chunks(call)), sw |-> call.sw]) ]_vars

\* a SEND_REMAINING request was refused and the operation raised
C4_Witness ==
    /\ ~Busy
    /\ last.status = "APDUError"
    /\ Len(last.call.answers) >= 2
    /\ last.call.resp /= <<>>
    /\ Refused(last.call.sw)

\* C5: after every successful select, challenge is the third record's value
\* and locked reports a locked session if the response has a third record, and
\* challenge is None and locked reports an unlocked one otherwise.
C5_LockedIffThirdRecord ==
    (Ended("select") /\ last.status = "ok")
    => LET tags == Value(parse_tlv(last.call.resp))
       IN  IF Len(tags) >= 3
           THEN challenge = Some(tags[3].value) /\ Truthy(locked)
           ELSE challenge = None /\ ~Truthy(locked)

\* the oath type of a Credential is TOTP (HOTP), as list names it ('TOTP') or
\* as calculate_all and put name it ('totp')
IsTotp(cred) == cred.oath_type \in {"TOTP", "totp"}
IsHotp(cred) == cred.oath_type \in {"HOTP", "hotp"}

CalculateChallenge(c) == Value(parse_tlv(c.sent[1].data))[2]

\* C6: calculate(cred) sends the 8-byte time challenge in the CHALLENGE tag
\* when the credential's oath type is TOTP and an empty one when it is HOTP,
\* for the Credentials of list(), of calculate_all() and of the caller.
C6_TotpGetsTimeChallenge ==
    \A c \in {call, last.call} :
        (c.op = "calculate" /\ c.sent /= <<>>) =>
            /\ CalculateChallenge(c).tag = TAG_CHALLENGE
            /\ IsTotp(c.arg.cred) =>
                  /\ Len(CalculateChallenge(c).value) = 8
                  /\ CalculateChallenge(c).value = PackQ(c.arg.at \div TIME_STEP)
            /\ IsHotp(c.arg.cred) => CalculateChallenge(c).value = <<>>

\* C7: when a public operation has returned, its APDU exchanges are done, and
\* the operation exchanging APDUs is the one called last.
C7_NoDeferredExchange ==
    /\ (Ended("list") /\ last.status = "ok") =>
          /\ wire.ticket = last.call.ticket
          /\ wire.apdu.ins \in {INS_LIST, INS_SEND_REMAINING}
    /\ Busy => call.ticket = ncalls

\* C8: put with an oath type or an algorithm that names no enumeration value
\* raises KeyError, sends no APDU and leaves the token as it was; no PUT is
\* ever in flight for such arguments.
UnknownEnum(a) ==
    \/ a.oath_type \notin {"totp", "hotp", "TOTP", "HOTP"}
    \/ a.algo \notin {"SHA1", "SHA256"}

C8_PutRejectsUnknownEnum ==
    /\ [](call.op = "put" => ~UnknownEnum(call.arg))
    /\ [][ (last' /= last /\ last'.call.op = "put" /\ UnknownEnum(last'.call.arg)) =>
              /\ last'.status = "KeyError"
              /\ last'.call.sent = <<>>
              /\ wire' = wire
              /\ tok' = tok
              /\ call' = call ]_vars

\* a put with an unknown algorithm has raised on a token that holds credentials
C8_Witness ==
    /\ Ended("put")
    /\ last.status = "KeyError"
    /\ last.call.arg.algo = "sha1"
    /\ tok.open
    /\ tok.creds /= {}

(***************************************************************************)
(* The decoders on drawn responses: list has got its response from         *)
(* send_apdu, or calculate_all has returned its generator, and the caller  *)
(* iterates.                                                               *)
(***************************************************************************)
\* the sequences of at most n elements of D
SeqsUpTo(D, n) == UNION {[1..k -> D] : k \in 0..n}

\* a listed credential: its name, oath type and algorithm
ListEntries ==
    [name : {<<>>, <<97>>, <<233>>}, oath_type : {"TOTP"}, algo : {"SHA1"}]
    \cup [name : {<<97>>, <<233>>}, oath_type : {"HOTP"}, algo : {"SHA256"}]
    \cup [name : {<<97>>}, oath_type : {"HOTP"}, algo : {"SHA1"}]
    \cup [name : {<<233>>}, oath_type : {"TOTP"}, algo : {"SHA256"}]

ListTypeByte(e) == OATH_TYPE_value(e.oath_type) + ALGO_value(e.algo)
\* a record as the token sends it: NAME_LIST tag, length L, type byte, name
ListRecord(e) ==
    <<TAG_NAME_LIST, 1 + Len(Utf8Encode(e.name)), ListTypeByte(e)>> \o Utf8Encode(e.name)
\* a record without the tag: length L, type byte, name
ListRecordBare(e) ==
    <<1 + Len(Utf8Encode(e.name)), ListTypeByte(e)>> \o Utf8Encode(e.name)
ListBytes(es) == Concat([i \in 1..Len(es) |-> ListRecord(es[i])])
ListBytesBare(es) == Concat([i \in 1..Len(es) |-> ListRecordBare(es[i])])
ListCreds(es) ==
    [i \in 1..Len(es) |->
        Credential(es[i].name, None, es[i].oath_type, FALSE, Some(es[i].algo))]

\* records a decoder has to refuse or cannot read
ListJunk ==
    { <<TAG_NAME_LIST, 2, 49, 97>>,    \* oath type nibble 0x30
      <<TAG_NAME_LIST, 2, 35, 97>>,    \* algorithm nibble 0x03
      <<TAG_NAME_LIST, 2, 33, 255>>,   \* a name that is not UTF-8
      <<TAG_NAME_LIST, 0, 33>>,        \* length byte 0
      <<TAG_NAME_LIST>> }              \* cut after the tag

ListResponses ==
    {ListBytes(es) : es \in SeqsUpTo(ListEntries, MaxRecs)}
    \cup {ListBytesBare(es) : es \in SeqsUpTo(ListEntries, MaxRecs)}
    \cup {ListBytes(es) \o j : es \in SeqsUpTo(ListEntries, MaxRecs - 1), j \in ListJunk}

\* an entry of a CALCULATE_ALL response: a name and what follows it
CodeEntries ==
    [name : {<<97>>}, kind : {"code"}, digits : {6}, top : BOOLEAN, n : {5}]
    \cup [name : {<<233>>}, kind : {"code"}, digits : {8}, top : BOOLEAN, n : {19088743}]
    \cup [name : {<<97>>}, kind : {"code"}, digits : {6}, top : {FALSE}, n : {19088743}]
MarkerEntries ==
    [name : {<<97>>, <<233>>}, kind : {"hotp", "touch"}, digits : {6}, top : {FALSE}, n : {0}]
\* markers with no digits byte, a code cut short, an unknown tag, a bad name
EmptyMarkerEntries ==
    [name : {<<97>>}, kind : {"hotp_empty", "touch_empty"}, digits : {6}, top : {FALSE},
     n : {0}]
OtherEntries ==
    [name : {<<97>>}, kind : {"short_code", "full_response", "bad_name"}, digits : {6},
     top : {FALSE}, n : {5}]

CodeBytes(e) == [PackI(e.n) EXCEPT ![1] = @ + (IF e.top THEN 128 ELSE 0)]
PairBytes(e) ==
    (IF e.kind = "bad_name" THEN tlv(TAG_NAME, <<255>>)
     ELSE tlv(TAG_NAME, Utf8Encode(e.name)))
    \o (CASE e.kind = "code" -> tlv(TAG_TRUNCATED_RESPONSE, <<e.digits>> \o CodeBytes(e))
          [] e.kind = "hotp" -> tlv(TAG_HOTP, <<e.digits>>)
          [] e.kind = "touch" -> tlv(TAG_TOUCH, <<e.digits>>)
          [] e.kind = "hotp_empty" -> tlv(TAG_HOTP, <<>>)
          [] e.kind = "touch_empty" -> tlv(TAG_TOUCH, <<>>)
          [] e.kind = "short_code" -> tlv(TAG_TRUNCATED_RESPONSE, <<e.digits, 1, 2>>)
          [] e.kind = "full_response" -> tlv(TAG_RESPONSE, <<e.digits>> \o CodeBytes(e))
          [] OTHER -> tlv(TAG_HOTP, <<e.digits>>))
PairsBytes(es) == Concat([i \in 1..Len(es) |-> PairBytes(es[i])])

\* what the entry stands for: the code is n mod 10^digits on digits digits
PairCred(e) ==
    CASE e.kind = "code" ->
            Credential(e.name, Some(ZeroPad(e.n % Pow10(e.digits), e.digits)), "totp",
                       FALSE, None)
      [] e.kind \in {"hotp", "hotp_empty"} -> Credential(e.name, None, "hotp", FALSE, None)
      [] OTHER -> Credential(e.name, None, "", TRUE, None)
PairsCreds(es) == [i \in 1..Len(es) |-> PairCred(es[i])]

WellFormedPairs == SeqsUpTo(CodeEntries \cup MarkerEntries, MaxRecs)
MarkedPairs == SeqsUpTo(MarkerEntries \cup EmptyMarkerEntries, MaxRecs)

CalculateAllResponses ==
    {PairsBytes(es) : es \in WellFormedPairs \cup MarkedPairs}
    \cup {PairsBytes(es) \o PairBytes(e) :
            es \in SeqsUpTo(MarkerEntries, MaxRecs - 1), e \in OtherEntries}
    \cup {PairsBytes(es) \o <<TAG_NAME, 1>> : es \in SeqsUpTo(MarkerEntries, MaxRecs - 1)}

DecodeToken ==
    [id |-> <<1>>, key |-> None, chal |-> None, open |-> TRUE, creds |-> {}, out |-> <<>>]

InitDecode ==
    /\ version = TOKEN_VERSION
    /\ id = <<1>>
    /\ challenge = None
    /\ tok = DecodeToken
    /\ held = {}
    /\ ncalls = 1
    /\ \/ \E resp \in ListResponses :
            /\ call = [op |-> "list", ticket |-> 1, resp |-> resp, sw |-> SW_OK,
                       sent |-> <<Apdu(0, INS_LIST, 0, 0, <<>>)>>,
                       answers |-> <<[resp |-> resp, sw |-> SW_OK]>>,
                       arg |-> NoArg, before |-> Sess]
            /\ wire = [apdu |-> Apdu(0, INS_LIST, 0, 0, <<>>), ticket |-> 1]
            /\ listGen = [NoGen EXCEPT !.state = "running", !.ticket = 1]
            /\ credsGen = NoGen
            /\ last = [status |-> "ok", call |-> NewCall("list", 1, NoArg), value |-> None]
       \/ \E resp \in CalculateAllResponses, now \in Times :
            LET apdu == Apdu(0, INS_CALCULATE_ALL, 0, 1,
                             tlv(TAG_CHALLENGE, time_challenge(None, now)))
            IN  /\ call = Idle
                /\ wire = [apdu |-> apdu, ticket |-> 1]
                /\ listGen = NoGen
                /\ credsGen = [NoGen EXCEPT !.state = "created", !.ticket = 1,
                                            !.resp = resp]
                /\ last = [status |-> "ok",
                           call |-> [op |-> "calculate_all", ticket |-> 1, resp |-> resp,
                                     sw |-> SW_OK, sent |-> <<apdu>>,
                                     answers |-> <<[resp |-> resp, sw |-> SW_OK]>>,
                                     arg |-> [at |-> now], before |-> Sess],
                           value |-> None]

NextDecode == list_return \/ list_resume \/ parse_creds_next

SpecDecode == InitDecode /\ [][NextDecode]_vars

(***************************************************************************)
(* Properties of the decoders                                              *)
(***************************************************************************)
\* generator g has decoded the entries es, whose Credentials are creds and
\* whose bytes are left(k) after the first k: it has yielded the first
\* Credentials in order, holds the bytes of the others, and when it is over
\* it has yielded them all and ended by StopIteration
DecodedInOrder(g, creds, left(_)) ==
    /\ Len(g.out) <= Len(creds)
    /\ g.out = SubSeq(creds, 1, Len(g.out))
    /\ g.state = "suspended" => g.buf = left(Len(g.out))
    /\ g.state = "done" => /\ g.out = creds
                           /\ g.buf = <<>>
                           /\ last.status = "StopIteration"

\* C9 as stated: a LIST response of n records of 1 length byte L, 1 type
\* byte and L-1 name bytes is decoded into the n Credentials in order and
\* consumed whole.
C9_ListDecodesBareRecords ==
    \A es \in SeqsUpTo(ListEntries, MaxRecs) :
        (listGen.state \in {"suspended", "done"} /\ listGen.resp = ListBytesBare(es))
        => DecodedInOrder(listGen, ListCreds(es),
                          LAMBDA k : ListBytesBare(SubSeq(es, k + 1, Len(es))))

\* C9 amended: a LIST response of n records of 1 tag byte, 1 length byte L,
\* 1 type byte and L-1 name bytes is decoded into the n Credentials in order,
\* each with the record's name, oath type and algorithm, and consumed whole.
C9_ListDecodesTaggedRecords ==
    \A es \in SeqsUpTo(ListEntries, MaxRecs) :
        (listGen.state \in {"suspended", "done"} /\ listGen.resp = ListBytes(es))
        => DecodedInOrder(listGen, ListCreds(es),
                          LAMBDA k : ListBytes(SubSeq(es, k + 1, Len(es))))

\* list has decoded two records with different names and types to the end
C9_Witness ==
    /\ listGen.state = "done"
    /\ last.status = "StopIteration"
    /\ Len(listGen.out) = 2
    /\ listGen.out[1].name = <<233>> /\ listGen.out[1].oath_type = "HOTP"
    /\ listGen.out[2].name = <<97>> /\ listGen.out[2].oath_type = "TOTP"
    /\ listGen.resp = <<TAG_NAME_LIST, 3, 18, 195, 169, TAG_NAME_LIST, 2, 33, 97>>

\* the tags generator g holds, as bytes
TagsBytes(tags) == Concat([i \in 1..Len(tags) |-> tlv(tags[i].tag, tags[i].value)])
CredsDecoded(es) ==
    (credsGen.state \in {"suspended", "done"} /\ credsGen.resp = PairsBytes(es))
    => DecodedInOrder([credsGen EXCEPT !.buf = TagsBytes(@)], PairsCreds(es),
                      LAMBDA k : PairsBytes(SubSeq(es, k + 1, Len(es))))

\* C10 as stated: a CALCULATE_ALL response of n NAME/response pairs is decoded
\* into n Credentials in order and consumed whole: TOTP with a code for a
\* TRUNCATED_RESPONSE, HOTP without a code for a HOTP marker, touch without a
\* code for a TOUCH marker.
C10_PairsDecoded ==
    \A es \in WellFormedPairs \cup MarkedPairs : CredsDecoded(es)

\* C10 amended: the same for a response in which every response record starts
\* with a digits byte, and a TRUNCATED_RESPONSE holds 4 code bytes after it.
C10_PairsWithDigitsDecoded ==
    \A es \in WellFormedPairs : CredsDecoded(es)

\* _parse_creds has decoded a code with its top bit set and a HOTP marker
C10_Witness ==
    /\ credsGen.state = "done"
    /\ last.status = "StopIteration"
    /\ Len(credsGen.out) = 2
    /\ credsGen.out[1] = Credential(<<233>>, Some(<<1, 9, 0, 8, 8, 7, 4, 3>>), "totp",
                                    FALSE, None)
    /\ credsGen.out[2] = Credential(<<97>>, None, "hotp", FALSE, None)
    /\ credsGen.resp[5] = TAG_TRUNCATED_RESPONSE
    /\ credsGen.resp[8] >= 128

(***************************************************************************)
(* The module functions on drawn arguments: a caller applies               *)
(* time_challenge, format_code, parse_truncated or hmac_shorten_key and    *)
(* last holds the arguments and the value returned.                        *)
(***************************************************************************)
\* the arguments: seconds up to the end of window MaxWindows, codes on both
\* sides of 10^6..10^8 and of zero, 4-byte strings with and without the top
\* bit, keys around the digest and block sizes
SecondsArgs == {None} \cup {Some(t) : t \in 0..(TIME_STEP * MaxWindows + TIME_STEP - 1)}
DigitsArgs == {6, 7, 8}
CodeArgs ==
    {0, 5, 999999, 1000000, 1000001, 12345678, 99999999, 100000000, 2147483647,
     0 - 1, 0 - 1000000, 0 - 2147483647}
    \cup {Pow10(MaxDigits) - 1, Pow10(MaxDigits)}
TruncatedArgs ==
    {<<a, b, c, d>> : a \in {0, 1, 63, 64, 127, 128, 129, 255}, b \in {0, 255},
                      c \in {0, 18}, d \in {0, 255}}
    \cup {<<>>, <<1, 2, 3>>, <<1, 2, 3, 4, 5>>}
KeyOfLen(n) == [i \in 1..n |-> (i * 11) % 256]
KeyArgs ==
    {KeyOfLen(n) : n \in {0, 1, SHA1_DIGEST_SIZE, SHA1_DIGEST_SIZE + 1, SHA256_DIGEST_SIZE,
                          SHA256_DIGEST_SIZE + 1, SHA1_BLOCK_SIZE - 1}}
    \cup {KeyOfLen(n) : n \in SHA1_BLOCK_SIZE..(SHA1_BLOCK_SIZE + MaxOver)}
AlgoArgs == {ALGO_SHA1, ALGO_SHA256, 3}

Returned(op, arg, status, value) ==
    /\ ~Busy
    /\ last' = [status |-> status, call |-> NewCall(op, 0, arg), value |-> value]
    /\ UNCHANGED <<version, id, challenge, tok, call, wire, listGen, credsGen, held, ncalls>>

\* time_challenge(t) called when the clock reads now
time_challenge_call ==
    \E t \in SecondsArgs, now \in Times :
        Returned("time_challenge", [t |-> t, now |-> now], "ok",
                 Some(time_challenge(t, now)))

format_code_call ==
    \E code \in CodeArgs, digits \in DigitsArgs :
        Returned("format_code", [code |-> code, digits |-> digits], "ok",
                 Some(format_code(code, digits)))

parse_truncated_call ==
    \E resp \in TruncatedArgs :
        LET v == parse_truncated(resp)
        IN  Returned("parse_truncated", [resp |-> resp],
                     IF v = None THEN "struct.error" ELSE "ok", v)

hmac_shorten_key_call ==
    \E key \in KeyArgs, algo \in AlgoArgs :
        LET v == hmac_shorten_key(key, algo)
        IN  Returned("hmac_shorten_key", [key |-> key, algo |-> algo],
                     IF v = None THEN "ValueError" ELSE "ok", v)

InitFn ==
    /\ version = TOKEN_VERSION
    /\ id = <<1>>
    /\ challenge = None
    /\ tok = DecodeToken
    /\ call = Idle
    /\ wire = NoWire
    /\ listGen = NoGen
    /\ credsGen = NoGen
    /\ held = {}
    /\ last = [status |-> "ok", call |-> Idle, value |-> None]
    /\ ncalls = 0

NextFn ==
    \/ time_challenge_call
    \/ format_code_call
    \/ parse_truncated_call
    \/ hmac_shorten_key_call

SpecFn == InitFn /\ [][NextFn]_vars

\* the unsigned number the big-endian bytes bs stand for
RECURSIVE UnpackBE(_)
UnpackBE(bs) ==
    IF bs = <<>> THEN 0 ELSE UnpackBE(SubSeq(bs, 1, Len(bs) - 1)) * 256 + bs[Len(bs)]

Called(op) == last.call.op = op /\ last.status = "ok"

\* C11: time_challenge(t) is non-decreasing in t and constant on each
\* 30-second window: for every t that is a multiple of 30, t = 0 included,
\* time_challenge(t) = time_challenge(t+29) and time_challenge(t) /=
\* time_challenge(t+30), whatever the clock reads at either call.
C11_WindowsFromArgumentOnly ==
    (Called("time_challenge") /\ last.call.arg.t /= None)
    => LET t == Value(last.call.arg.t)
           v == Value(last.value)
       IN  \A now \in Times :
             /\ v = time_challenge(Some(t), now)
             /\ \A u \in 0..t : u > 0 =>
                    UnpackBE(time_challenge(Some(u), now)) <= UnpackBE(v)
             /\ t % TIME_STEP = 0 =>
                  /\ v = time_challenge(Some(t + TIME_STEP - 1), now)
                  /\ v /= time_challenge(Some(t + TIME_STEP), now)

\* the number the decimal digits ds stand for
RECURSIVE DecValue(_)
DecValue(ds) ==
    IF ds = <<>> THEN 0 ELSE DecValue(SubSeq(ds, 1, Len(ds) - 1)) * 10 + ds[Len(ds)]

\* C12: for every digit count d in {6,7,8} and every integer n,
\* format_code(n, d) is a string of exactly d decimal digits whose numeric
\* value is n mod 10^d, left-padded with zeros.
C12_FormatCodeDigits ==
    (last.call.op = "format_code" /\ last.call.arg.digits \in {6, 7, 8})
    => LET n == last.call.arg.code
           d == last.call.arg.digits
           v == Value(last.value)
       IN  /\ last.status = "ok"
           /\ Len(v) = d
           /\ \A i \in 1..Len(v) : v[i] \in 0..9
           /\ DecValue(v) \in 0..(Pow10(d) - 1)
           /\ DecValue(v) = n % Pow10(d)

\* format_code has padded a reduced code, and has reduced a negative one
C12_Witness ==
    /\ Called("format_code")
    /\ \/ /\ last.call.arg = [code |-> 1000001, digits |-> 6]
          /\ last.value = Some(<<0, 0, 0, 0, 0, 1>>)
       \/ /\ last.call.arg = [code |-> 0 - 1, digits |-> 7]
          /\ last.value = Some(<<9, 9, 9, 9, 9, 9, 9>>)

\* C13: for every 4-byte input, parse_truncated returns the big-endian
\* unsigned 32-bit value with its top bit cleared, a number in [0, 2^31 - 1].
C13_ParseTruncatedClearsTopBit ==
    (last.call.op = "parse_truncated" /\ Len(last.call.arg.resp) = 4)
    => LET resp == last.call.arg.resp
           v == Value(last.value)
       IN  /\ last.status = "ok"
           /\ v \in 0..2147483647
           /\ PackI(v) = [resp EXCEPT ![1] = IF @ >= 128 THEN @ - 128 ELSE @]

\* parse_truncated has cleared the top bit of an input that had it set and
\* kept bit 30
C13_Witness ==
    /\ Called("parse_truncated")
    /\ last.call.arg.resp = <<255, 255, 18, 255>>
    /\ last.value = Some(2147422975)

BlockSize(algo) == IF algo = ALGO_SHA1 THEN SHA1_BLOCK_SIZE ELSE SHA256_BLOCK_SIZE
DigestSize(algo) == IF algo = ALGO_SHA1 THEN SHA1_DIGEST_SIZE ELSE SHA256_DIGEST_SIZE

\* C14: for SHA1 and SHA256, hmac_shorten_key returns a key no longer than
\* the block size unchanged, returns a value of exactly the digest length for
\* a longer key, and returns a shortened key unchanged when applied again.
C14_ShortenKeyIdempotent ==
    (last.call.op = "hmac_shorten_key" /\ last.call.arg.algo \in {ALGO_SHA1, ALGO_SHA256})
    => LET key == last.call.arg.key
           algo == last.call.arg.algo
           v == Value(last.value)
       IN  /\ last.status = "ok"
           /\ Len(key) <= BlockSize(algo) => v = key
           /\ Len(key) > BlockSize(algo) => Len(v) = DigestSize(algo)
           /\ hmac_shorten_key(v, algo) = Some(v)

\* hmac_shorten_key has hashed a key of one byte over the SHA256 block size
C14_Witness ==
    /\ Called("hmac_shorten_key")
    /\ last.call.arg.algo = ALGO_SHA256
    /\ Len(last.call.arg.key) = SHA256_BLOCK_SIZE + 1
    /\ Len(Value(last.value)) = SHA256_DIGEST_SIZE
    /\ Value(last.value) /= SubSeq(last.call.arg.key, 1, SHA256_DIGEST_SIZE)

(***************************************************************************)
(* Further properties of the session                                       *)
(***************************************************************************)
\* the operation a step belongs to: the one in progress, the one it starts,
\* or the one it ends at once
StepOps == {call.op, call'.op} \cup (IF last' /= last THEN {last'.call.op} ELSE {})

\* C15: version and device_id are changed by select only, challenge by select
\* and validate only: no step of put, list, calculate, calculate_all, delete,
\* set_password, clear_password or reset changes a session field, and each of
\* them ends, by returning or raising, with the fields it started with.
C15_SessionFrame ==
    [][ /\ (version' /= version \/ id' /= id) => call.op = "select"
        /\ challenge' /= challenge => call.op \in {"select", "validate"}
        /\ StepOps \cap {"select", "validate"} = {} => Sess' = Sess
        /\ (last' /= last /\ last'.call.op \notin {"select", "validate"})
              => Sess' = last'.call.before
        /\ (last' /= last /\ last'.call.op = "validate")
              => (version' = last'.call.before.version /\ id' = last'.call.before.id) ]_vars

\* a reset has returned, and a put has raised a protocol error, on a session
\* that holds a challenge
C15_Witness ==
    /\ challenge /= None
    /\ Sess = last.call.before
    /\ \/ Ended("reset") /\ last.status = "ok" /\ tok.open
       \/ Ended("put") /\ last.status = "APDUError"

\* the token holds the key a set_password(p) sent it, derived with some
\* device id: set_password(p) is the last password operation that succeeded
PasswordSetLast(p) == \E i \in TokenIds : tok.key = Some(_derive_key(i, p))

\* a select has succeeded since the password was set and nothing has changed
\* the token since: the session holds the token's id and the challenge the
\* token issued last
SelectedSince(sess) ==
    /\ sess.id = tok.id
    /\ sess.challenge /= None
    /\ sess.challenge = tok.chal

\* after such a select, the validate the token has answered with 0x9000 has
\* returned and unlocked the session
ValidateUnlocks == last.status = "ok" /\ challenge = None /\ tok.open

\* C16 as stated: after any sequence of operations, Reset included, in which
\* set_password(p) is the last successful password operation, a following
\* select leaves the session holding a challenge, and validate(p) then
\* succeeds and unlocks it.
C16_ValidateAfterSetPassword ==
    /\ (Ended("select") /\ last.status = "ok" /\ tok.key /= None) => challenge /= None
    /\ (Ended("validate") /\ last.call.sw = SW_OK /\ SelectedSince(last.call.before)
            /\ PasswordSetLast(last.call.arg.password))
       => ValidateUnlocks

\* C16 amended: the same when set_password(p) was called on a session whose
\* device_id was the id of the token, so that the token holds the key derived
\* from its own id and p.
C16_ValidateAfterSetPasswordOnFreshId ==
    /\ (Ended("select") /\ last.status = "ok" /\ tok.key /= None) => challenge /= None
    /\ (Ended("validate") /\ last.call.sw = SW_OK /\ SelectedSince(last.call.before)
            /\ tok.key = Some(_derive_key(tok.id, last.call.arg.password)))
       => ValidateUnlocks

\* set_password with a password the token did not have, select and validate
\* with that password have succeeded in turn; the keys of the model's ids and
\* passwords are all different
C16_Witness ==
    /\ Ended("validate")
    /\ last.status = "ok"
    /\ last.call.arg.password = <<113>>
    /\ last.call.before.challenge /= None
    /\ tok.key = Some(_derive_key(tok.id, <<113>>))
    /\ challenge = None
    /\ tok.open
    /\ ncalls >= 3
    /\ \A i, j \in TokenIds : \A p, q \in Passwords :
          _derive_key(i, p) = _derive_key(j, q) => (i = j /\ p = q)

(***************************************************************************)
(* Further properties of the decoders                                      *)
(***************************************************************************)
\* LIST records whose type byte has an unknown oath-type or algorithm nibble
UnknownTypeRecords == {j \in ListJunk : Len(j) = 4 /\ j[3] \in {49, 35}}
KnownResponseTags == {TAG_TRUNCATED_RESPONSE, TAG_HOTP, TAG_TOUCH}

\* C17: an unknown wire byte is rejected with a decode error and never turned
\* into a Credential: list raises on a type byte whose oath-type or algorithm
\* nibble is not an enumeration value, and the decoder of calculate_all yields
\* no Credential for a response record whose tag is none of
\* TRUNCATED_RESPONSE, HOTP and TOUCH, but raises.
C17_UnknownByteRejected ==
    /\ \A i \in 1..Len(listGen.out) :
          /\ listGen.out[i].oath_type \in OATH_TYPE_names
          /\ listGen.out[i].algo \in {Some(a) : a \in ALGO_names}
    /\ \A es \in SeqsUpTo(ListEntries, MaxRecs - 1) : \A j \in UnknownTypeRecords :
          listGen.resp = ListBytes(es) \o j
          => /\ Len(listGen.out) <= Len(es)
             /\ listGen.state = "done" => last.status = "ValueError"
    /\ (credsGen.state \in {"suspended", "done"} /\ parse_tlv(credsGen.resp) /= None)
       => LET tags == Value(parse_tlv(credsGen.resp))
          IN  /\ \A k \in 1..Len(credsGen.out) : tags[2 * k].tag \in KnownResponseTags
              /\ (credsGen.state = "done" /\ last.status = "StopIteration")
                 => \A k \in 1..Len(tags) : k % 2 = 0 => tags[k].tag \in KnownResponseTags

(***************************************************************************)
(* The payload of put                                                      *)
(***************************************************************************)
\* the commands of the call c that are not continuation fetches
Commands(c) == SelectSeq(c.sent, LAMBDA x : x.ins /= INS_SEND_REMAINING)

\* the payload of the put c read back: NAME, KEY, then what is left
PutPayloadAsClaimed(c) ==
    LET a == c.arg
        data == c.sent[1].data
        n == Utf8Encode(a.name)
        afterName == SubSeq(data, 3 + Len(n), Len(data))
        keyLen == afterName[2]
        keyVal == SubSeq(afterName, 3, 2 + keyLen)
        rest == SubSeq(afterName, 3 + keyLen, Len(afterName))
        algo == ALGO_value(a.algo)
        property == IF a.require_touch THEN <<TAG_PROPERTY, PROPERTIES_REQUIRE_TOUCH>>
                    ELSE <<>>
        imf == IF a.counter > 0
               THEN <<TAG_IMF, 4, (a.counter \div 16777216) % 256, (a.counter \div 65536) % 256,
                      (a.counter \div 256) % 256, a.counter % 256>>
               ELSE <<>>
    IN  /\ Len(Commands(c)) = 1
        /\ c.sent[1].ins = INS_PUT
        /\ SubSeq(data, 1, 2 + Len(n)) = <<TAG_NAME, Len(n)>> \o n
        /\ afterName[1] = TAG_KEY
        /\ keyVal[1] = OATH_TYPE_value(Upper(a.oath_type)) + algo
        /\ keyVal[2] = a.digits
        /\ Len(a.key) <= BlockSize(algo) => SubSeq(keyVal, 3, Len(keyVal)) = a.key
        /\ Len(a.key) > BlockSize(algo) => Len(keyVal) = 2 + DigestSize(algo)
        /\ rest = property \o imf

\* C18: the payload put sends holds the NAME tag and the KEY tag (type|algo
\* byte, digit count byte, possibly shortened key) always, a PROPERTY tag with
\* the touch-required bit if and only if require_touch is set, and an IMF tag
\* with the 4-byte big-endian counter if and only if counter > 0; put sends
\* exactly one PUT command.
C18_PutPayload ==
    /\ call.op = "put" => PutPayloadAsClaimed(call)
    /\ (last.call.op = "put" /\ last.status /= "KeyError") => PutPayloadAsClaimed(last.call)

\* a put with a counter and without require_touch has returned, and the token
\* has stored the credential
C18_Witness ==
    /\ Ended("put")
    /\ last.status = "ok"
    /\ last.call.arg.counter = 258
    /\ ~last.call.arg.require_touch
    /\ last.call.sent[1].data = <<TAG_NAME, 1, 97, TAG_KEY, 5, 17, 6, 1, 2, 3,
                                  TAG_IMF, 4, 0, 0, 1, 2>>
    /\ \E c \in tok.creds : c.name = <<97>> /\ c.type = 17

(***************************************************************************)
(* Termination.  An operation that has started runs on: the interpreter    *)
(* takes the next step of send_apdu and of the operation's body; and the   *)
(* caller of a generator keeps asking for the next Credential.             *)
(***************************************************************************)
select_live == select_within(MaxLiveCalls)
list_live == list_within(MaxLiveCalls)
calculate_all_live == calculate_all_within(MaxLiveCalls)

Internal ==
    \/ send_apdu_more \/ send_apdu_raise
    \/ select_return \/ list_return \/ calculate_all_return
Iterate == list_next \/ list_resume \/ parse_creds_next

\* a caller that selects, lists and calculates all, MaxLiveCalls times
NextLive ==
    \/ select_live \/ select_return
    \/ list_live \/ list_next \/ list_return \/ list_resume
    \/ calculate_all_live \/ calculate_all_return \/ parse_creds_next
    \/ send_apdu_more \/ send_apdu_raise

SpecLive == Init /\ [][NextLive]_vars /\ WF_vars(Internal) /\ WF_vars(Iterate)

Iterating(g) == g.state \in {"created", "running", "suspended"}
\* an operation is in progress or a generator has not come to its end
Pending == Busy \/ Iterating(listGen) \/ Iterating(credsGen)

\* C19: every public operation terminates: the continuation loop of send_apdu
\* ends at the first answer whose status word has a high byte other than
\* 0x61, every step of a decoding loop of list and calculate_all leaves less
\* of the buffer than it found, and so, whenever an operation is in progress
\* or a generator is being read, a state follows in which every operation has
\* ended and every generator has come to its end, by exhausting the buffer or
\* raising.
C19_Terminates ==
    /\ [][ /\ (Busy /\ call.sent /= <<>> /\ call.sw \div 256 /= SW_MORE_DATA) => ~Busy'
           /\ (listGen.state = "suspended" /\ listGen' /= listGen
                  /\ listGen'.ticket = listGen.ticket)
              => (Len(listGen'.buf) < Len(listGen.buf) \/ listGen'.state = "done")
           /\ (credsGen.state = "suspended" /\ credsGen' /= credsGen
                  /\ credsGen'.ticket = credsGen.ticket)
              => (Len(credsGen'.buf) < Len(credsGen.buf) \/ credsGen'.state = "done") ]_vars
    /\ Pending ~> ~Pending

\* a list answered in three chunks has yielded its two Credentials and ended
C19_Witness ==
    /\ listGen.state = "done"
    /\ last.status = "StopIteration"
    /\ last.call.op = "list"
    /\ Len(listGen.out) = 2
    /\ Len(listGen.resp) > MaxChunk
    /\ listGen.buf = <<>>

(***************************************************************************)
(* select re-invoked, on drawn answers: send_apdu has got the last answer  *)
(* to SELECT, from a token of this or another version or over a transport  *)
(* that cut the response, and select goes on from there.                   *)
(***************************************************************************)
\* the records of a SELECT response: version, then id, then challenge
SelectRecords ==
    {<<>>}
    \cup {<<[tag |-> TAG_VERSION, value |-> v]>> : v \in {TOKEN_VERSION, <<1, 0, 0>>}}
    \cup {<<[tag |-> TAG_VERSION, value |-> v], [tag |-> TAG_NAME, value |-> i]>> :
            v \in {TOKEN_VERSION, <<1, 0, 0>>}, i \in TokenIds}
    \cup {<<[tag |-> TAG_VERSION, value |-> v], [tag |-> TAG_NAME, value |-> i],
            [tag |-> TAG_CHALLENGE, value |-> c]>> :
            v \in {TOKEN_VERSION, <<1, 0, 0>>}, i \in TokenIds,
            c \in TokenChallenges \cup {<<7>>}}
SelectResponses ==
    {TagsBytes(rs) : rs \in SelectRecords}
    \cup {TagsBytes(rs) \o <<TAG_NAME, 2, 1>> : rs \in SelectRecords}
\* the sessions select is re-invoked on
SelectSessions ==
    [version : {TOKEN_VERSION}, id : {<<1>>}, challenge : {None, Some(<<>>), Some(<<9, 9>>)}]
\* the last answer: a response with 0x9000, or an error status word
SelectAnswers ==
    {[resp |-> r, sw |-> SW_OK] : r \in SelectResponses}
    \cup {[resp |-> <<>>, sw |-> w] : w \in {SW_COMMAND_ABORTED, SW_NO_SPACE}}

InitSelect ==
    /\ \E sess \in SelectSessions :
         /\ version = sess.version
         /\ id = sess.id
         /\ challenge = sess.challenge
    /\ tok = DecodeToken
    /\ held = {}
    /\ ncalls = 1
    /\ listGen = NoGen
    /\ credsGen = NoGen
    /\ wire = [apdu |-> Apdu(0, INS_SELECT, 4, 0, OATH_AID), ticket |-> 1]
    /\ last = [status |-> "ok", call |-> Idle, value |-> None]
    /\ \E a \in SelectAnswers :
         call = [op |-> "select", ticket |-> 1, resp |-> a.resp, sw |-> a.sw,
                 sent |-> <<Apdu(0, INS_SELECT, 4, 0, OATH_AID)>>,
                 answers |-> <<a>>, arg |-> NoArg, before |-> Sess]

NextSelect == select_return \/ send_apdu_raise

SpecSelect == InitSelect /\ [][NextSelect]_vars

\* C20: a re-invoked select that fails, with a protocol error or with a decode
\* error on a response of fewer than two TLV records, leaves version,
\* device_id and challenge at their values from before the call.
C20_FailedSelectKeepsSession ==
    (Ended("select") /\ last.status /= "ok") => Sess = last.call.before

====
